---- MODULE Spec2Model ----
(***************************************************************************)
(* The interactive line editor of cmdline-ai-helper: AI.run (src/ai.py,    *)
(* lines 170-244), the per-byte reader AI.get_char (lines 160-168) and the *)
(* error boundary of main (lines 246-256).                                 *)
(*                                                                         *)
(* Characters are code points (the values ord() returns); a Python string  *)
(* is a sequence of code points, so '' is << >> and '[' is << 91 >>.       *)
(***************************************************************************)
EXTENDS Integers, Sequences, FiniteSets, TLC

\* ---------------------------------------------------------------- bounds
\* The longest text the model lets the buffer grow to: a printable key is
\* not offered once len(input_text) has reached it.
MaxLen == 3
\* The counter of observed raw-mode releases saturates here ("this many or
\* more").
MaxReleases == 2

\* The length of the long seed of SpecLong, whose cursor needs two digits.
LongSeedLen == 12

\* ----------------------------------------------------- program constants
ESC == 27
CR == 13
DEL == 127
BS == 8
SPACE == 32
LBRACKET == 91
CH_D == 68
CH_C == 67
CH_H == 72
CH_F == 70
CH_3 == 51
CH_K == 75
\* Bytes of the input alphabet the code names nowhere: '~', the byte a
\* terminal sends after ESC [ 3, and Control-A, a byte below 32 that is
\* none of 27, 13, 8.
TILDE == 126
CTRL_A == 1

\* ------------------------------------------------------------- the input
\* What one sys.stdin.read(1) can return: one character, or '' at end of
\* stream.
Bytes == {ESC, LBRACKET, CH_D, CH_C, CH_H, CH_F, CH_3, TILDE, CR, DEL, BS, CTRL_A}
ReadResults == {<< >>} \cup {<<b>> : b \in Bytes}

\* The command texts the translation step may hand to the editor.
Seeds == {<< >>, <<CH_D, TILDE>>}

\* The terminal attribute sets the session may start from, and the one
\* tty.setraw switches to.
RAW == "raw"
OrigAttrs == {"cooked", "noecho"}

VARIABLES
    command,      \* run: the seed text (line 173)
    input_text,   \* run: the edited text
    position,     \* run: the cursor
    pc,           \* where run is: acquire, repaint, getchar, read, finally, execute, done
    nread,        \* get_char calls completed for the key being decoded
    ch,           \* what the latest get_char returned
    term,         \* the terminal's attributes
    old_settings, \* run: the attributes captured at line 181
    gc_old,       \* get_char: the attributes captured at line 162
    exit,         \* how the loop was left: none, break, return, or the exception
    out,          \* what the latest repaint wrote to stdout
    executed,     \* the commands handed to subprocess.call, in order
    outcome,      \* what the caller sees: none, Cancelled, Executed, Error
    releases,     \* raw -> prior attribute transitions observed so far (saturating)
    screen        \* the terminal's edit line and cursor column, <<line, col>>

vars == <<command, input_text, position, pc, nread, ch, term, old_settings,
          gc_old, exit, out, executed, outcome, releases, screen>>

\* ------------------------------------------------------------ helpers
Max(a, b) == IF a >= b THEN a ELSE b
Min(a, b) == IF a <= b THEN a ELSE b

\* input_text[:n] and input_text[n:]
Take(s, n) == SubSeq(s, 1, Min(Max(n, 0), Len(s)))
Drop(s, n) == SubSeq(s, Min(Max(n, 0), Len(s)) + 1, Len(s))

\* ord(char): defined on strings of length one only.
Ord(c) == c[1]

\* str(n) for n >= 0, as the f-string of line 191 formats it.
RECURSIVE Decimal(_)
Decimal(n) == IF n < 10 THEN <<48 + n>> ELSE Decimal(n \div 10) \o <<48 + (n % 10)>>

\* ------------------------------------------------------- buffer operations
\* Left arrow without the clamp of line 201.
LeftArrowNoClamp(p) == p - 1
\* line 201
LeftArrow(p) == Max(0, p - 1)
\* Right arrow without the clamp of line 203.
RightArrowNoClamp(t, p) == p + 1
\* line 203
RightArrow(t, p) == Min(Len(t), p + 1)
\* line 205
Home == 0
\* line 207
End(t) == Len(t)
\* Delete removing the character before the cursor, not the one at it.
DeleteTextBefore(t, p) == IF p < Len(t) THEN Take(t, p - 1) \o Drop(t, p) ELSE t
\* lines 210-211
DeleteText(t, p) == IF p < Len(t) THEN Take(t, p) \o Drop(t, p + 1) ELSE t
\* Backspace removing the character at the cursor, not the one before it.
BackspaceTextAtCursor(t, p) == IF p > 0 THEN Take(t, p) \o Drop(t, p + 1) ELSE t
\* lines 220-222
BackspaceText(t, p) == IF p > 0 THEN Take(t, p - 1) \o Drop(t, p) ELSE t
BackspacePos(p) == IF p > 0 THEN p - 1 ELSE p
\* A printable key appended to the text, whatever the cursor.
InsertTextAtEnd(t, p, c) == t \o c
\* lines 225-226
InsertText(t, p, c) == Take(t, p) \o c \o Drop(t, p)
InsertPos(p) == p + 1

\* ---------------------------------------------------------- the terminal
\* tcsetattr given the attributes of the moment, not the saved ones.
TcSetAttrCurrent(cur, saved) == cur
\* termios.tcsetattr(fd, termios.TCSADRAIN, saved): the attributes after it.
TcSetAttr(cur, saved) == saved
\* tty.setraw(fd): the attributes after it.
SetRaw(cur) == RAW

\* One more observed release, when a tcsetattr takes the terminal out of raw.
Released(before, after) ==
    IF before = RAW /\ after # RAW THEN Min(releases + 1, MaxReleases) ELSE releases

\* A repaint that writes the cursor-forward sequence at column 0 too.
FrameAlwaysForward(t, p) ==
    <<CR>> \o <<ESC, LBRACKET, CH_K>> \o t \o <<CR>>
    \o <<ESC, LBRACKET>> \o Decimal(p) \o <<CH_C>>
\* A repaint without the clear of line 186.
FrameNoClear(t, p) ==
    <<CR>> \o t \o <<CR>>
    \o (IF p > 0 THEN <<ESC, LBRACKET>> \o Decimal(p) \o <<CH_C>> ELSE << >>)
\* lines 185-191: the bytes of one repaint.
Frame(t, p) ==
    <<CR>> \o <<ESC, LBRACKET, CH_K>> \o t \o <<CR>>
    \o (IF p > 0 THEN <<ESC, LBRACKET>> \o Decimal(p) \o <<CH_C>> ELSE << >>)

\* ------------------------------------------------------------ the display
\* How the terminal shows the bytes written by lines 185-191 on the edit
\* line: carriage return moves to column 0, ESC [ K erases from the cursor
\* to the end of the line, ESC [ n C moves n columns right (a missing or
\* zero n counts as 1), any other byte overwrites at the cursor.
IsDigit(b) == b >= 48 /\ b <= 57

\* The number of leading digits of b.
RECURSIVE DigitsLen(_)
DigitsLen(b) == IF b # << >> /\ IsDigit(b[1]) THEN 1 + DigitsLen(Tail(b)) ELSE 0

\* The number a sequence of digits writes; 0 for none.
RECURSIVE ParseDecimal(_)
ParseDecimal(d) ==
    IF d = << >> THEN 0
    ELSE 10 * ParseDecimal(SubSeq(d, 1, Len(d) - 1)) + (d[Len(d)] - 48)

\* The line with c written at column col.
RECURSIVE Put(_, _, _)
Put(line, col, c) ==
    IF col < Len(line) THEN [line EXCEPT ![col + 1] = c]
    ELSE IF col = Len(line) THEN Append(line, c)
    ELSE Put(Append(line, SPACE), col, c)

\* The line and the cursor column after the terminal has taken the bytes b.
RECURSIVE Render(_, _, _)
Render(b, line, col) ==
    IF b = << >> THEN <<line, col>>
    ELSE IF b[1] = CR THEN Render(Tail(b), line, 0)
    ELSE IF b[1] = ESC /\ Len(b) >= 2 /\ b[2] = LBRACKET
    THEN LET n == DigitsLen(Drop(b, 2))
         IN IF Len(b) < 3 + n THEN <<line, col>>
            ELSE LET arg == ParseDecimal(SubSeq(b, 3, 2 + n))
                     fin == b[3 + n]
                     rest == Drop(b, 3 + n)
                 IN IF fin = CH_K THEN Render(rest, Take(line, col), col)
                    ELSE IF fin = CH_C THEN Render(rest, line, col + Max(1, arg))
                    ELSE Render(rest, line, col)
    ELSE Render(Tail(b), Put(line, col, b[1]), col + 1)

\* ------------------------------------------------------------------ Init
Init ==
    /\ command \in Seeds
    /\ input_text = command
    /\ position = Len(command)
    /\ pc = "acquire"
    /\ nread = 0
    /\ ch = << >>
    /\ term \in OrigAttrs
    /\ old_settings = "unset"
    /\ gc_old = "unset"
    /\ exit = "none"
    /\ out = << >>
    /\ executed = << >>
    /\ outcome = "none"
    /\ releases = 0
    /\ screen = <<<< >>, 0>>

\* --------------------------------------------------------------- actions
\* lines 180-181: the attribute query succeeds.
RunAcquire ==
    /\ pc = "acquire"
    /\ old_settings' = term
    /\ pc' = "repaint"
    /\ UNCHANGED <<command, input_text, position, nread, ch, term, gc_old, exit,
                   out, executed, outcome, releases, screen>>

\* A failed attribute query that is swallowed: the loop starts all the same.
RunAcquireFailIgnored ==
    /\ pc = "acquire"
    /\ pc' = "repaint"
    /\ UNCHANGED <<command, input_text, position, nread, ch, term, old_settings,
                   gc_old, exit, out, executed, outcome, releases, screen>>

\* line 181 raises termios.error (stdin is no terminal); main, lines 254-256.
RunAcquireFail ==
    /\ pc = "acquire"
    /\ pc' = "done"
    /\ outcome' = "Error"
    /\ UNCHANGED <<command, input_text, position, nread, ch, term, old_settings,
                   gc_old, exit, out, executed, releases, screen>>

\* lines 185-192. char is dead here (line 194 assigns it before any use), so
\* the model forgets it and starts the next key.
Repaint ==
    /\ pc = "repaint"
    /\ out' = Frame(input_text, position)
    /\ screen' = Render(out', screen[1], screen[2])
    /\ pc' = "getchar"
    /\ nread' = 0
    /\ ch' = << >>
    /\ UNCHANGED <<command, input_text, position, term, old_settings, gc_old, exit,
                   executed, outcome, releases>>

\* A write or the flush of lines 185-192 raises OSError before anything
\* reaches the terminal. char is dead here too.
RepaintFail ==
    /\ pc = "repaint"
    /\ exit' = "OSError"
    /\ pc' = "finally"
    /\ nread' = 0
    /\ ch' = << >>
    /\ UNCHANGED <<command, input_text, position, term, old_settings,
                   gc_old, out, executed, outcome, releases, screen>>

\* lines 161-164: get_char captures the attributes and enters raw mode.
GetCharEnter ==
    /\ pc = "getchar"
    /\ gc_old' = term
    /\ term' = SetRaw(term)
    /\ pc' = "read"
    /\ UNCHANGED <<command, input_text, position, nread, ch, old_settings, exit,
                   out, executed, outcome, releases, screen>>

\* line 165 raises OSError; the finally of lines 166-167 runs.
GetCharFail ==
    /\ pc = "read"
    /\ term' = TcSetAttr(term, gc_old)
    /\ releases' = Released(term, term')
    /\ exit' = "OSError"
    /\ pc' = "finally"
    /\ UNCHANGED <<command, input_text, position, nread, ch, old_settings, gc_old,
                   out, executed, outcome, screen>>

\* The dispatch of lines 196-226, one operator per get_char call of a key.
\* Each gives <<input_text', position', pc', exit'>> for the result r of the
\* call, the text t and the cursor p.

\* lines 196, 216-226: r is the result of line 194. ord('') raises TypeError.
DispatchFirst(r, t, p) ==
    IF Len(r) # 1 THEN <<t, p, "finally", "TypeError">>
    ELSE IF Ord(r) = ESC THEN <<t, p, "getchar", "none">>
    ELSE IF Ord(r) = CR THEN <<t, p, "finally", "break">>
    ELSE IF Ord(r) \in {DEL, BS}
         THEN <<BackspaceText(t, p), BackspacePos(p), "repaint", "none">>
    ELSE IF Ord(r) >= SPACE
         THEN <<InsertText(t, p, r), InsertPos(p), "repaint", "none">>
    ELSE <<t, p, "repaint", "none">>

\* A bare Escape that breaks out of the loop where line 214 returns.
DispatchSecondBreak(r, t, p) ==
    IF r = <<LBRACKET>> THEN <<t, p, "getchar", "none">>
    ELSE <<t, p, "finally", "break">>

\* ESC followed by a byte other than '[' dropped like an unknown sequence.
DispatchSecondLenient(r, t, p) ==
    IF r = <<LBRACKET>> THEN <<t, p, "getchar", "none">>
    ELSE <<t, p, "repaint", "none">>

\* lines 198, 212-214: r is the result of line 197.
DispatchSecond(r, t, p) ==
    IF r = <<LBRACKET>> THEN <<t, p, "getchar", "none">>
    ELSE <<t, p, "finally", "return">>

\* ESC [ 3 deleting at once, without the read of line 209.
DispatchThirdNoTilde(r, t, p) ==
    IF r = <<CH_D>> THEN <<t, LeftArrow(p), "repaint", "none">>
    ELSE IF r = <<CH_C>> THEN <<t, RightArrow(t, p), "repaint", "none">>
    ELSE IF r = <<CH_H>> THEN <<t, Home, "repaint", "none">>
    ELSE IF r = <<CH_F>> THEN <<t, End(t), "repaint", "none">>
    ELSE IF r = <<CH_3>> THEN <<DeleteText(t, p), p, "repaint", "none">>
    ELSE <<t, p, "repaint", "none">>

\* An unrecognised byte after ESC [ treated like a bare Escape.
DispatchThirdStrict(r, t, p) ==
    IF r = <<CH_D>> THEN <<t, LeftArrow(p), "repaint", "none">>
    ELSE IF r = <<CH_C>> THEN <<t, RightArrow(t, p), "repaint", "none">>
    ELSE IF r = <<CH_H>> THEN <<t, Home, "repaint", "none">>
    ELSE IF r = <<CH_F>> THEN <<t, End(t), "repaint", "none">>
    ELSE IF r = <<CH_3>> THEN <<t, p, "getchar", "none">>
    ELSE <<t, p, "finally", "return">>

\* lines 200-208: r is the result of line 199.
DispatchThird(r, t, p) ==
    IF r = <<CH_D>> THEN <<t, LeftArrow(p), "repaint", "none">>
    ELSE IF r = <<CH_C>> THEN <<t, RightArrow(t, p), "repaint", "none">>
    ELSE IF r = <<CH_H>> THEN <<t, Home, "repaint", "none">>
    ELSE IF r = <<CH_F>> THEN <<t, End(t), "repaint", "none">>
    ELSE IF r = <<CH_3>> THEN <<t, p, "getchar", "none">>
    ELSE <<t, p, "repaint", "none">>

\* The byte after ESC [ 3 looked at: Enter there confirms.
DispatchFourthEnter(r, t, p) ==
    IF r = <<CR>> THEN <<t, p, "finally", "break">>
    ELSE <<DeleteText(t, p), p, "repaint", "none">>
\* The byte after ESC [ 3 looked at: no delete unless it is '~'.
DispatchFourthChecked(r, t, p) ==
    IF r = <<TILDE>> THEN <<DeleteText(t, p), p, "repaint", "none">>
    ELSE <<t, p, "repaint", "none">>
\* lines 209-211: the result of line 209 is dropped.
DispatchFourth(r, t, p) == <<DeleteText(t, p), p, "repaint", "none">>

\* The dispatch of the k-th byte of a key.
Dispatch(k, r, t, p) ==
    CASE k = 1 -> DispatchFirst(r, t, p)
      [] k = 2 -> DispatchSecond(r, t, p)
      [] k = 3 -> DispatchThird(r, t, p)
      [] OTHER -> DispatchFourth(r, t, p)

\* Whether the k-th byte r would grow the text.
Grows(k, r) == k = 1 /\ Len(r) = 1 /\ Ord(r) >= SPACE /\ Ord(r) \notin {DEL, BS}

\* lines 165-168 return r, then lines 196-226 run up to the next get_char,
\* the next repaint, or the exit from the loop.
GetCharReturn(r) ==
    /\ pc = "read"
    /\ Grows(nread + 1, r) => Len(input_text) < MaxLen
    /\ term' = TcSetAttr(term, gc_old)
    /\ releases' = Released(term, term')
    /\ ch' = r
    /\ nread' = nread + 1
    /\ LET d == Dispatch(nread + 1, r, input_text, position)
       IN /\ input_text' = d[1]
          /\ position' = d[2]
          /\ pc' = d[3]
          /\ exit' = d[4]
    /\ UNCHANGED <<command, old_settings, gc_old, out, executed, outcome, screen>>

\* Where run goes after its finally clause, by how the loop was left.
AfterFinally(e) ==
    CASE e = "break" -> <<"execute", "none">>
      [] e = "return" -> <<"done", "Cancelled">>
      [] OTHER -> <<"done", "Error">>

\* lines 228-229, then: line 231 after a break, the return of line 214 (the
\* notice of line 213 was printed), or main's handler (lines 254-256).
RunFinally ==
    /\ pc = "finally"
    /\ term' = TcSetAttr(term, old_settings)
    /\ releases' = Released(term, term')
    /\ pc' = AfterFinally(exit)[1]
    /\ outcome' = AfterFinally(exit)[2]
    /\ UNCHANGED <<command, input_text, position, nread, ch, old_settings, gc_old,
                   exit, out, executed, screen>>

\* The edited text handed over as it is, empty or not.
FinalCommandNoSeed(t, seed) == t
\* lines 232-233: the string handed to the executor.
FinalCommand(t, seed) == IF t = << >> THEN seed ELSE t

\* lines 231-241.
Execute ==
    /\ pc = "execute"
    /\ input_text' = FinalCommand(input_text, command)
    /\ executed' = Append(executed, input_text')
    /\ outcome' = "Executed"
    /\ pc' = "done"
    /\ UNCHANGED <<command, position, nread, ch, term, old_settings, gc_old, exit,
                   out, releases, screen>>

Next ==
    \/ RunAcquire
    \/ RunAcquireFail
    \/ Repaint
    \/ RepaintFail
    \/ GetCharEnter
    \/ GetCharFail
    \/ \E r \in ReadResults : GetCharReturn(r)
    \/ RunFinally
    \/ Execute

Spec == Init /\ [][Next]_vars

\* The same program started on a command long enough for the cursor to
\* reach columns of two digits.
LongSeed == [i \in 1..LongSeedLen |-> CH_D]

InitLong ==
    /\ command = LongSeed
    /\ input_text = command
    /\ position = Len(command)
    /\ pc = "acquire"
    /\ nread = 0
    /\ ch = << >>
    /\ term \in OrigAttrs
    /\ old_settings = "unset"
    /\ gc_old = "unset"
    /\ exit = "none"
    /\ out = << >>
    /\ executed = << >>
    /\ outcome = "none"
    /\ releases = 0
    /\ screen = <<<< >>, 0>>

SpecLong == InitLong /\ [][Next]_vars

\* One session, on the seed D~ and a cooked terminal, in which nothing
\* blocks once the loop is left: the finally clause and what follows it run
\* to the end of run.
InitFair == Init /\ command = <<CH_D, TILDE>> /\ term = "cooked"

FairSpec == InitFair /\ [][Next]_vars /\ WF_vars(RunFinally) /\ WF_vars(Execute)

\* --------------------------------------------------------------- typing
TypeOK ==
    /\ command \in Seeds
    /\ position \in 0..(MaxLen + 1)
    /\ pc \in {"acquire", "repaint", "getchar", "read", "finally", "execute", "done"}
    /\ nread \in 0..4
    /\ ch \in ReadResults
    /\ term \in OrigAttrs \cup {RAW}
    /\ exit \in {"none", "break", "return", "TypeError", "OSError"}
    /\ outcome \in {"none", "Cancelled", "Executed", "Error"}
    /\ releases \in 0..MaxReleases
    /\ Len(executed) <= 1

\* ---------------------------------------------------------------- claims
\* A read that completed a get_char call for the k-th byte of a key.
ReadStep(k) == pc = "read" /\ nread = k - 1 /\ nread' = k

\* C1: the cursor stays within the text: 0 <= position <= len(input_text)
\* in every state, so after every processed key.
C1_CursorInRange == 0 <= position /\ position <= Len(input_text)

\* Left arrow was pressed with the cursor already at column 0 of a non-empty
\* text (the previous repaint shows the same text with the cursor at 0).
C1_Witness ==
    /\ pc = "repaint" /\ nread = 3 /\ ch = <<CH_D>>
    /\ input_text # << >> /\ position = 0
    /\ out = Frame(input_text, 0)

\* C2: once control has left the loop (after the finally clause of run), the
\* terminal has the attributes captured before the loop, and is not raw.
C2_AttributesRestored ==
    pc \in {"execute", "done"} =>
        /\ term # RAW
        /\ old_settings # "unset" => term = old_settings

\* The session ended on a failed read of the third byte of a key.
C2_Witness ==
    /\ pc = "done" /\ exit = "OSError" /\ nread = 2 /\ ch = <<LBRACKET>>
    /\ outcome = "Error" /\ term = old_settings

\* C3: a session that ends by Enter, by a bare Escape or by end of stream
\* has seen the terminal released from raw mode exactly once.
C3_ReleasedExactlyOnce ==
    (pc = "done" /\ exit \in {"break", "return", "TypeError"}) => releases = 1

\* C4: from the first repaint to the end of the loop the terminal is in raw
\* mode.
C4_RawHeldDuringLoop ==
    (pc \in {"getchar", "read"} \/ (pc = "repaint" /\ out # << >>)) => term = RAW

\* The first byte of a key was read and it was end of stream.
EofAtKeyStart == nread = 1 /\ ch = << >>

\* C5: end of stream at the first byte of a key ends the session as
\* Cancelled, with nothing executed.
C5_EofIsCancel ==
    (pc = "done" /\ EofAtKeyStart) => (outcome = "Cancelled" /\ executed = << >>)

\* C6: once ESC and then a byte other than '[' (or end of stream) have been
\* read, run is returning: the loop is left by line 214, nothing has been or
\* will be executed, and the caller sees Cancelled.
C6_BareEscapeCancels ==
    (nread = 2 /\ ch # <<LBRACKET>>) =>
        /\ pc \in {"finally", "done"}
        /\ exit = "return"
        /\ executed = << >>
        /\ pc = "done" => outcome = "Cancelled"

\* After edits, ESC followed by Enter ended the session as Cancelled.
C6_Witness ==
    /\ pc = "done" /\ nread = 2 /\ ch = <<CR>>
    /\ input_text # command /\ outcome = "Cancelled" /\ executed = << >>

\* C7: the executor is handed a command only after Enter, once, and that
\* command is the edited text if it is not empty and the seed text if it is.
C7_ExecutesEditedOrSeed ==
    [][executed' # executed =>
        /\ exit = "break"
        /\ executed = << >>
        /\ executed' = <<IF input_text = << >> THEN command ELSE input_text>>]_vars

\* The text was erased (the last repaint showed an empty line), Enter was
\* pressed, and the seed was executed.
C7_Witness ==
    /\ pc = "done" /\ command # << >> /\ executed = <<command>>
    /\ out = Frame(<< >>, 0) /\ nread = 1 /\ ch = <<CR>>

\* C8: ESC [ 3 ~ at a key boundary reads four bytes and no more, changes
\* nothing on the first three, deletes the character at the cursor on the
\* fourth, and the read after the next repaint is the first byte of a key.
C8_DeleteIsFourBytes ==
    [][/\ (ReadStep(1) /\ ch' = <<ESC>>) =>
            (pc' = "getchar" /\ UNCHANGED <<input_text, position>>)
       /\ (ReadStep(2) /\ ch' = <<LBRACKET>>) =>
            (pc' = "getchar" /\ UNCHANGED <<input_text, position>>)
       /\ (ReadStep(3) /\ ch' = <<CH_3>>) =>
            (pc' = "getchar" /\ UNCHANGED <<input_text, position>>)
       /\ (ReadStep(4) /\ ch' = <<TILDE>>) =>
            /\ pc' = "repaint"
            /\ position' = position
            /\ input_text' =
                 IF position < Len(input_text)
                 THEN SubSeq(input_text, 1, position)
                      \o SubSeq(input_text, position + 2, Len(input_text))
                 ELSE input_text
       /\ (pc = "repaint" /\ nread = 4 /\ pc' = "getchar") => nread' = 0]_vars

\* ESC [ 3 ~ was read with the cursor between D and ~ of the seed: the ~ is
\* gone and the cursor is where it was.
C8_Witness ==
    /\ pc = "repaint" /\ nread = 4 /\ ch = <<TILDE>>
    /\ out = Frame(<<CH_D, TILDE>>, 1)
    /\ input_text = <<CH_D>> /\ position = 1

\* C9: a first byte c >= 32 other than 127 is inserted at the cursor, the
\* cursor moves one to the right, and the loop goes on.
C9_PrintableInserts ==
    [][(ReadStep(1) /\ Len(ch') = 1 /\ ch'[1] >= 32 /\ ch'[1] # 127) =>
        /\ input_text' = SubSeq(input_text, 1, position) \o ch'
                         \o SubSeq(input_text, position + 1, Len(input_text))
        /\ position' = position + 1
        /\ pc' = "repaint"
        /\ exit' = "none"]_vars

\* '[' was typed with the cursor between D and ~ of the seed.
C9_Witness ==
    /\ pc = "repaint" /\ nread = 1 /\ ch = <<LBRACKET>>
    /\ out = Frame(<<CH_D, TILDE>>, 1)
    /\ input_text = <<CH_D, LBRACKET, TILDE>> /\ position = 2

\* C10: Backspace (127 or 8) removes the character before the cursor and
\* moves the cursor one to the left; at column 0 it changes nothing.
C10_Backspace ==
    [][(ReadStep(1) /\ ch' \in {<<127>>, <<8>>}) =>
        /\ pc' = "repaint"
        /\ IF position > 0
           THEN /\ input_text' = SubSeq(input_text, 1, position - 1)
                                 \o SubSeq(input_text, position + 1, Len(input_text))
                /\ position' = position - 1
           ELSE UNCHANGED <<input_text, position>>]_vars

\* Control-H was pressed with the cursor between D and ~ of the seed: the D
\* is gone.
C10_Witness ==
    /\ pc = "repaint" /\ nread = 1 /\ ch = <<BS>>
    /\ out = Frame(<<CH_D, TILDE>>, 1)
    /\ input_text = <<TILDE>> /\ position = 0

\* C11: Delete (ESC [ 3 ~) removes the character at the cursor and leaves
\* the cursor where it is; with the cursor at the end of the text it changes
\* neither.
C11_DeleteForward ==
    [][(ReadStep(4) /\ ch' = <<TILDE>>) =>
        IF position < Len(input_text)
        THEN /\ Len(input_text') = Len(input_text) - 1
             /\ \A i \in 1..Len(input_text') :
                    input_text'[i] = input_text[IF i <= position THEN i ELSE i + 1]
             /\ position' = position
        ELSE UNCHANGED <<input_text, position>>]_vars

\* Delete was pressed with the cursor on the middle character of D[~: the
\* [ is gone and the cursor is still at 1.
C11_Witness ==
    /\ pc = "repaint" /\ nread = 4 /\ ch = <<TILDE>>
    /\ out = Frame(<<CH_D, LBRACKET, TILDE>>, 1)
    /\ input_text = <<CH_D, TILDE>> /\ position = 1

\* C12: the cursor keys leave the text alone and keep the loop editing:
\* ESC [ D gives max(0, cursor - 1), ESC [ C gives min(len(text), cursor + 1),
\* ESC [ H gives 0 and ESC [ F gives len(text).
C12_CursorKeys ==
    [][(ReadStep(3) /\ ch' \in {<<68>>, <<67>>, <<72>>, <<70>>}) =>
        /\ input_text' = input_text
        /\ pc' = "repaint"
        /\ exit' = "none"
        /\ ch' = <<68>> => position' = (IF position - 1 < 0 THEN 0 ELSE position - 1)
        /\ ch' = <<67>> => position' = (IF position + 1 > Len(input_text)
                                        THEN Len(input_text) ELSE position + 1)
        /\ ch' = <<72>> => position' = 0
        /\ ch' = <<70>> => position' = Len(input_text)]_vars

\* Right arrow was pressed with the cursor already at the end of a
\* non-empty text, and the cursor stayed there.
C12_Witness ==
    /\ pc = "repaint" /\ nread = 3 /\ ch = <<CH_C>>
    /\ input_text # << >> /\ position = Len(input_text)
    /\ out = Frame(input_text, Len(input_text))

\* C13: each repaint writes carriage return, ESC [ K, the whole text,
\* carriage return and then, when and only when the cursor is not at column
\* 0, ESC [ <cursor in decimal> C; nothing else and in this order.
C13_RepaintBytes ==
    [][(pc = "repaint" /\ pc' = "getchar") =>
        out' = <<13, 27, 91, 75>> \o input_text \o <<13>>
               \o (IF position > 0
                   THEN <<27, 91>>
                        \o (IF position < 10 THEN <<48 + position>>
                            ELSE <<48 + (position \div 10), 48 + (position % 10)>>)
                        \o <<67>>
                   ELSE << >>)]_vars

\* The long seed was repainted with the cursor at column 11, one left of
\* its end.
C13_Witness ==
    /\ pc = "getchar" /\ input_text = LongSeed /\ position = 11
    /\ out = <<13, 27, 91, 75>> \o LongSeed \o <<13, 27, 91, 49, 49, 67>>

\* C14: when the attribute query before the loop fails, the session never
\* starts: nothing is repainted, no key is read, nothing is executed, and
\* the caller sees an error.
C14_NoSessionWithoutTerminal ==
    old_settings = "unset" =>
        /\ pc \in {"acquire", "done"}
        /\ out = << >> /\ screen = <<<< >>, 0>>
        /\ nread = 0 /\ ch = << >> /\ gc_old = "unset" /\ term # RAW
        /\ executed = << >>
        /\ pc = "done" => outcome = "Error"

\* The attribute query failed and run is over.
C14_Witness ==
    /\ pc = "done" /\ old_settings = "unset" /\ outcome = "Error"
    /\ out = << >> /\ executed = << >>

\* C15: ESC [ x with x none of D, C, H, F, 3, and a first byte below 32
\* other than 27, 13 and 8, change neither the text nor the cursor, raise
\* nothing, and leave the loop editing: the next repaint is followed by the
\* read of the first byte of a new key.
C15_IgnoredInput ==
    [][/\ (ReadStep(3) /\ Len(ch') = 1 /\ ch'[1] \notin {68, 67, 72, 70, 51}) =>
            (UNCHANGED <<input_text, position>> /\ pc' = "repaint" /\ exit' = "none")
       /\ (ReadStep(1) /\ Len(ch') = 1 /\ ch'[1] < 32 /\ ch'[1] \notin {27, 13, 8}) =>
            (UNCHANGED <<input_text, position>> /\ pc' = "repaint" /\ exit' = "none")
       /\ (pc = "repaint" /\ nread \in {1, 3} /\ pc' = "getchar") =>
            (nread' = 0 /\ UNCHANGED <<input_text, position>>)]_vars

\* ESC [ ~ was read in the middle of a text and nothing moved: the previous
\* repaint shows the same text and cursor.
C15_Witness ==
    /\ pc = "repaint" /\ nread = 3 /\ ch = <<TILDE>>
    /\ input_text = <<CH_D, TILDE>> /\ position = 1
    /\ out = Frame(input_text, position) /\ exit = "none"

\* C16: the executor is invoked at most once, only when run is over after
\* a loop left by Enter, and the loop is left by Enter only when 13 was the
\* first byte of a key: never while the loop is editing, never after a
\* cancel, never on a 13 read as second, third or fourth byte.
C16_ExecutesOnlyAfterEnter ==
    /\ Len(executed) <= 1
    /\ executed # << >> => (pc = "done" /\ outcome = "Executed" /\ exit = "break")
    /\ exit = "break" => (nread = 1 /\ ch = <<13>>)
    /\ (nread \in 2..4 /\ ch = <<13>>) => (exit # "break" /\ executed = << >>)
    /\ pc \in {"acquire", "repaint", "getchar", "read", "finally"} => executed = << >>
    /\ outcome \in {"Cancelled", "Error"} => executed = << >>

\* An edited text was confirmed by Enter and handed to the executor, once.
C16_Witness ==
    /\ pc = "done" /\ outcome = "Executed" /\ Len(executed) = 1
    /\ executed[1] # command /\ nread = 1 /\ ch = <<CR>>

\* C17: whenever the loop waits for the first byte of a key, the line the
\* terminal shows is the current text, with nothing left of an earlier
\* longer text, and the terminal's cursor is at column position.
C17_DisplayMatchesState ==
    (pc \in {"getchar", "read"} /\ nread = 0) =>
        (screen[1] = input_text /\ screen[2] = position)

\* The seed D~ was shown, then shortened to ~: the loop waits for the next
\* key and the line shows ~ alone.
C17_Witness ==
    /\ pc = "read" /\ nread = 0 /\ command = <<CH_D, TILDE>>
    /\ input_text = <<TILDE>> /\ position = 0
    /\ screen = <<<<TILDE>>, 0>>

\* C18: after ESC [ 3 exactly one more byte is read, and whatever it is
\* (Enter, ESC, a printable character, '~') the key is one delete at the
\* cursor and nothing else: the byte neither confirms, nor cancels, nor is
\* inserted, and the next read starts a new key.
C18_FourthByteDiscarded ==
    [][/\ (ReadStep(3) /\ ch' = <<51>>) =>
            (pc' = "getchar" /\ nread' = 3 /\ exit' = "none")
       /\ ReadStep(4) =>
            /\ pc' = "repaint"
            /\ exit' = "none"
            /\ executed' = executed
            /\ position' = position
            /\ input_text' =
                 SubSeq(input_text, 1, position)
                 \o SubSeq(input_text, position + 2, Len(input_text))
       /\ (pc = "repaint" /\ nread = 4) => (nread' = 0 /\ pc' \in {"getchar", "finally"})]_vars

\* ESC [ 3 ESC was read at the start of D~: the D is gone, the session goes
\* on, and the ESC was not taken as the start of a key.
C18_Witness ==
    /\ pc = "repaint" /\ nread = 4 /\ ch = <<ESC>>
    /\ out = Frame(<<CH_D, TILDE>>, 0)
    /\ input_text = <<TILDE>> /\ position = 0 /\ exit = "none"

\* The loop of lines 183-226 has not been left.
Editing == pc \in {"repaint", "getchar", "read"}

\* C19: a key takes at most four reads. Enter read as first byte leaves the
\* loop as confirmed, ESC followed by anything but '[' leaves it as
\* cancelled, with no further read, and run then ends as Executed or as
\* Cancelled; every other byte read keeps the loop editing, and the loop is
\* left as confirmed or cancelled by these two keys only.
C19_LeavesOnEnterOrEscapeOnly ==
    /\ [][/\ nread' <= 4
          /\ (ReadStep(1) /\ ch' = <<13>>) => (pc' = "finally" /\ exit' = "break")
          /\ (ReadStep(1) /\ ch' = <<27>>) => (pc' = "getchar" /\ exit' = "none")
          /\ (ReadStep(2) /\ ch' # <<91>>) => (pc' = "finally" /\ exit' = "return")
          /\ (Editing /\ exit' \in {"break", "return"}) =>
                \/ ReadStep(1) /\ ch' = <<13>>
                \/ ReadStep(2) /\ ch' # <<91>>
          /\ (/\ \E k \in 1..4 : ReadStep(k)
              /\ Len(ch') = 1
              /\ ~(ReadStep(1) /\ ch' = <<13>>)
              /\ ~(ReadStep(2) /\ ch' # <<91>>)) => (pc' \in {"repaint", "getchar"})]_vars
    /\ (exit = "break") ~> (pc = "done" /\ outcome = "Executed")
    /\ (exit = "return") ~> (pc = "done" /\ outcome = "Cancelled")

\* ESC ESC was read after edits: the loop has just been left as cancelled.
C19_Witness ==
    /\ pc = "finally" /\ exit = "return" /\ nread = 2 /\ ch = <<ESC>>
    /\ input_text # command

====
